---- MODULE Spec2Model ----
(***************************************************************************)
(* Spektar: live audio -> sample buffer -> FFT frame -> bands -> history.  *)
(*                                                                         *)
(* Two execution contexts share `sample_buffer` behind a mutex:            *)
(*   - the cpal input callback (audio thread), main.rs:105-149             *)
(*   - eframe's update() (UI thread), main.rs:33-79                        *)
(* `spectrum_data` (the history) sits behind a second mutex that only the  *)
(* UI thread ever takes.                                                   *)
(*                                                                         *)
(* A sample is a record [seq, v]: `seq` is the device arrival number of    *)
(* the sample (1, 2, 3, ...), `v` the class of its f32 value ("zero",      *)
(* "signal", "nan"); one run of the model has the device pick up samples   *)
(* of one class.  Magnitudes and band values are fixed-point numbers in    *)
(* units of 1/Unit (the mean of a band is truncated to that grid); the     *)
(* f32 arithmetic of the band index computation is modelled bit for bit.   *)
(*                                                                         *)
(* The capacities of the source (4096 samples, frames of 1024, a history   *)
(* of 50) are scaled down, keeping their order 1024 < 4096 and a chunk     *)
(* size above the capacity; NUM_BANDS is the source's value.               *)
(***************************************************************************)
EXTENDS Integers, Sequences, FiniteSets, TLC

\* ------------------------------------------------------------ constants
\* main.rs:13  const HISTORY_SIZE: usize = 50   (scaled)
HISTORY_SIZE == 3
\* main.rs:14  const NUM_BANDS: usize = 40
NUM_BANDS == 40
\* main.rs:109 `buffer.len() > 4096`            (scaled)
SAMPLE_CAPACITY == 4
\* main.rs:36  `buffer.len() >= 1024`           (scaled)
FFT_SIZE == 2

\* --------------------------------------------------------------- bounds
\* longest chunk the device hands to one callback (above SAMPLE_CAPACITY)
MaxChunk == 5
\* samples the device delivers in one run of the model
MaxArrived == 9
\* bins the spectrum analyzer returns for one frame
Bins == 2
\* fixed point: the integer Unit stands for 1.0
Unit == 2
\* longest bin sequence and largest band count given to one call of
\* convert_spectrum_to_bands on its own
MaxBins == 4
MaxBands == 4
\* length of the long bin sequences (one pulse among zeros) given to it
LongBins == 100

\* Not modelled: a poisoned mutex (no code panics while holding a guard, so
\* every lock() and try_lock() fails only by contention), and a second
\* callback running beside the first (cpal runs the data callback on one
\* audio thread).

\* ---------------------------------------------------------------- state
VARIABLES
    sample_buffer,   \* Arc<Mutex<Vec<f32>>>: the Vec
    sb_lock,         \* owner of the sample_buffer mutex: "none", "cb", "ui"
    spectrum_data,   \* Arc<Mutex<VecDeque<Vec<f32>>>>: the VecDeque
    sd_lock,         \* owner of the spectrum_data mutex: "none", "ui"
    audio_stream,    \* Option<Stream>: "None", or the stream's sample format
    source,          \* class of the raw samples the device picks up in this run
    cb_pc,           \* position of the audio callback
    data,            \* the callback's `data` slice (raw samples)
    ui_pc,           \* position of update()
    samples,         \* update's local `samples`
    spectrum,        \* update's local `spectrum_data` (magnitudes of the bins)
    bands,           \* update's local `bands`
    drawn,           \* what draw_spectrum last painted
    arrived,         \* number of samples the device has delivered
    call,            \* one call of convert_spectrum_to_bands on its own
    before_push,     \* history variable: the buffer as the callback locked it
    pushed,          \* history variable: the band frames pushed so far, in order
    drained,         \* history variable: the frames drained so far, in order
    history_src,     \* history variable: for each entry of spectrum_data,
                     \* the index in `drained` of the frame it was computed from
    tick             \* history variable: what this update tick started from

vars == <<sample_buffer, sb_lock, spectrum_data, sd_lock, audio_stream, source,
          cb_pc, data, ui_pc, samples, spectrum, bands, drawn, arrived, call,
          before_push, pushed, drained, history_src, tick>>

\* ------------------------------------------------------------- helpers
Min(a, b) == IF a < b THEN a ELSE b

\* Vec::drain(0..n) leaves s[n..]
DropFront(s, n) == SubSeq(s, n + 1, Len(s))

\* the first n elements, what drain(0..n).collect() returns
TakeFront(s, n) == SubSeq(s, 1, n)

\* the last n elements of s
LastN(s, n) == SubSeq(s, Len(s) - n + 1, Len(s))

\* ------------------------------------------------- sample conversion
\* classes of raw sample a device of the given format can deliver
RawKinds(format) ==
    CASE format = "F32" -> {"zero", "signal", "nan"}
      [] format \in {"I16", "U16"} -> {"zero", "signal"}
      [] format = "None" -> {"zero"}

\* main.rs:107 (f32 as is), :122 (x / i16::MAX: 0 stays 0),
\* :138 (x / u16::MAX * 2 - 1: no u16 maps to 0.0)
ToF32(format, raw) ==
    CASE format = "F32" -> raw
      [] format = "I16" -> raw
      [] format = "U16" -> "signal"

\* the f32 samples a callback appends for its `data`
FloatData(format, d) ==
    [j \in 1..Len(d) |-> [seq |-> d[j].seq, v |-> ToF32(format, d[j].v)]]

\* ------------------------------------------------ spectrum analysis
\* magnitude of the bins of a frame that holds signal: below 1.0, above 1.0
MagVals == {1, Unit + 1}

\* hann_window + samples_fft_to_spectrum (spectrum_analyzer crate): Err for a
\* frame holding a NaN, all-zero magnitudes for an all-zero frame, positive
\* magnitudes otherwise (here the same in every bin)
SpectrumResults(frame) ==
    IF \E j \in 1..Len(frame) : frame[j].v = "nan"
    THEN {[ok |-> FALSE, data |-> <<>>]}
    ELSE IF \A j \in 1..Len(frame) : frame[j].v = "zero"
         THEN {[ok |-> TRUE, data |-> [b \in 1..Bins |-> 0]]}
         ELSE {[ok |-> TRUE, data |-> [b \in 1..Bins |-> m]] : m \in MagVals}

\* ------------------------------------------- convert_spectrum_to_bands
\* ---- f32 arithmetic of the index computation (IEEE 754 binary32, round to
\* nearest, ties to even).  A positive value is [m, e] with 2^23 <= m < 2^24,
\* standing for m * 2^e; zero is [m |-> 0, e |-> 0].  The operands here are
\* far from the subnormal and the overflow range.
F32Zero == [m |-> 0, e |-> 0]

\* the powers of two of the format: the hidden bit 2^23, the mantissa range
\* 2^24, and the limb 2^12 of the product
P23 == 2^23
P24 == 2^24
P12 == 2^12

\* q + r/d rounded to an integer, ties to even
RoundEven(q, r, d) ==
    IF 2 * r > d \/ (2 * r = d /\ q % 2 = 1) THEN q + 1 ELSE q

\* a rounded mantissa that reached 2^24 is 2^23 with the next exponent
F32Norm(m, e) == IF m = P24 THEN [m |-> P23, e |-> e + 1] ELSE [m |-> m, e |-> e]

RECURSIVE F32Scale(_, _, _)
\* n and s doubled / incremented until n \div d >= 2^23: [n, s]
F32Scale(n, d, s) ==
    IF n \div d >= P23 THEN [n |-> n, s |-> s] ELSE F32Scale(2 * n, d, s + 1)

\* `a as f32 / d as f32` for integers 0 <= a <= d, 0 < d < 128; the quotient
\* is at most 1, so its mantissa is a * 2^s / d for some s >= 23
F32Div(a, d) ==
    IF a = 0 THEN F32Zero
    ELSE LET k == F32Scale(a * P23, d, 23)
         IN  F32Norm(RoundEven(k.n \div d, k.n % d, d), 0 - k.s)

\* `x as f32` for an integer 0 <= x < 2^24: exact
F32FromInt(x) ==
    IF x = 0 THEN F32Zero
    ELSE LET k == IF x < P12 THEN F32Scale(x * P12, 1, 12) ELSE F32Scale(x, 1, 0)
         IN  [m |-> k.n, e |-> 0 - k.s]

\* x * y in f32: the exact 48-bit product of the mantissas, kept as
\* hi * 2^24 + lo in 12-bit limbs, then rounded to 24 bits
F32Mul(x, y) ==
    IF x.m = 0 \/ y.m = 0 THEN F32Zero
    ELSE LET x1 == x.m \div P12
             x0 == x.m % P12
             y1 == y.m \div P12
             y0 == y.m % P12
             mid == x1 * y0 + x0 * y1
             low == x0 * y0 + (mid % P12) * P12
             lo == low % P24
             hi == x1 * y1 + mid \div P12 + low \div P24
         IN  IF hi >= P23
             THEN F32Norm(RoundEven(hi, lo, P24), x.e + y.e + 24)
             ELSE F32Norm(RoundEven(2 * hi + lo \div P23, lo % P23, P23),
                          x.e + y.e + 23)

\* x.powf(2.0), taken as the correctly rounded square
F32Sq(x) == F32Mul(x, x)

\* `x as usize` for x >= 0: truncation
F32ToUsize(x) ==
    IF x.m = 0 \/ x.e <= 0 - 24 THEN 0
    ELSE IF x.e >= 0 THEN x.m * 2^(x.e)
    ELSE x.m \div 2^(0 - x.e)

\* BandIdx scaled by spectrum_len - 1
BandIdxShort(i, num_bands, spectrum_len) ==
    F32ToUsize(F32Mul(F32Sq(F32Div(i, num_bands)), F32FromInt(spectrum_len - 1)))

\* ((i as f32 / num_bands as f32).powf(2.0) * spectrum_len as f32) as usize
BandIdx(i, num_bands, spectrum_len) ==
    F32ToUsize(F32Mul(F32Sq(F32Div(i, num_bands)), F32FromInt(spectrum_len)))

RECURSIVE SumMags(_, _, _)
\* spectrum[start_idx..end_idx].iter().map(|f| f.1).sum(), 0-based, end exclusive
SumMags(spec, start_idx, end_idx) ==
    IF start_idx >= end_idx THEN 0
    ELSE spec[start_idx + 1] + SumMags(spec, start_idx + 1, end_idx)

\* Clamp01 left out
ClampNone(x) == x

\* f32::clamp(0.0, 1.0)
Clamp01(x) == IF x < 0 THEN 0 ELSE IF x > Unit THEN Unit ELSE x

\* BandValue with the bands initialised to 1.0
BandValueInitOne(spec, i, num_bands) ==
    LET spectrum_len == Len(spec)
        start_idx == BandIdx(i, num_bands, spectrum_len)
        end_idx == Min(BandIdx(i + 1, num_bands, spectrum_len), spectrum_len)
    IN  IF start_idx < end_idx
        THEN Clamp01(SumMags(spec, start_idx, end_idx) \div (end_idx - start_idx))
        ELSE Unit

\* the value the loop body gives band i (0-based)
BandValue(spec, i, num_bands) ==
    LET spectrum_len == Len(spec)
        start_idx == BandIdx(i, num_bands, spectrum_len)
        end_idx == Min(BandIdx(i + 1, num_bands, spectrum_len), spectrum_len)
    IN  IF start_idx < end_idx
        THEN Clamp01(SumMags(spec, start_idx, end_idx) \div (end_idx - start_idx))
        ELSE 0

\* convert_spectrum_to_bands returning an empty Vec for an empty spectrum
convert_EmptyOnNoBins(spec, num_bands) ==
    IF Len(spec) = 0
    THEN <<>>
    ELSE [i \in 1..num_bands |-> BandValue(spec, i - 1, num_bands)]

convert_spectrum_to_bands(spec, num_bands) ==
    IF Len(spec) = 0
    THEN [i \in 1..num_bands |-> 0]
    ELSE [i \in 1..num_bands |-> BandValue(spec, i - 1, num_bands)]

\* ----------------------------------------------------------- Init
\* no call of convert_spectrum_to_bands outside update
NoCall == [spectrum |-> <<>>, num_bands |-> 0, result |-> <<>>, done |-> FALSE]

\* update is between two ticks
NoTick == [locked |-> FALSE, buffer |-> <<>>, history |-> <<>>]

\* SpectrumApp::default(), main.rs:22-30, before any callback or tick
Fresh ==
    /\ sample_buffer = <<>>
    /\ sb_lock = "none"
    /\ spectrum_data = <<>>
    /\ sd_lock = "none"
    /\ cb_pc = "idle"
    /\ data = <<>>
    /\ ui_pc = "try_lock"
    /\ samples = <<>>
    /\ spectrum = <<>>
    /\ bands = <<>>
    /\ drawn = [mode |-> "none", current |-> <<>>, layers |-> <<>>]
    /\ arrived = 0
    /\ before_push = <<>>
    /\ pushed = <<>>
    /\ drained = <<>>
    /\ history_src = <<>>
    /\ tick = NoTick

\* main: default(), then init_audio(), which leaves a playing stream of one of
\* the three formats or fails (main.rs:259-266)
Init ==
    /\ Fresh
    /\ audio_stream \in {"None", "F32", "I16", "U16"}
    /\ source \in RawKinds(audio_stream)
    /\ call = NoCall

\* ------------------------------------------------- the audio callback
\* cpal calls the data callback with the next chunk of the device
CbInvoke(n) ==
    /\ audio_stream # "None"
    /\ cb_pc = "idle"
    /\ arrived + n <= MaxArrived
    /\ data' = [j \in 1..n |-> [seq |-> arrived + j, v |-> source]]
    /\ arrived' = arrived + n
    /\ cb_pc' = "lock"
    /\ UNCHANGED <<before_push, pushed, call, source, sample_buffer, sb_lock, spectrum_data, sd_lock, audio_stream,
                   ui_pc, samples, spectrum, bands, drawn, drained, history_src,
                   tick>>

\* sample_buffer.lock(): returns once the mutex is free; until then the
\* callback stays at "lock"
\* CbLock taking the buffer whoever holds the lock
CbLockNoWait ==
    /\ cb_pc = "lock"
    /\ sb_lock' = "cb"
    /\ cb_pc' = "extend"
    /\ before_push' = sample_buffer
    /\ UNCHANGED <<pushed, call, source, sample_buffer, spectrum_data, sd_lock,
                   audio_stream, data, ui_pc, samples, spectrum, bands, drawn,
                   arrived, drained, history_src, tick>>

CbLock ==
    /\ cb_pc = "lock"
    /\ sb_lock = "none"
    /\ sb_lock' = "cb"
    /\ cb_pc' = "extend"
    /\ before_push' = sample_buffer
    /\ UNCHANGED <<pushed, call, source, sample_buffer, spectrum_data, sd_lock, audio_stream, data,
                   ui_pc, samples, spectrum, bands, drawn, arrived, drained,
                   history_src, tick>>

\* buffer.extend_from_slice(data)
CbExtend ==
    /\ cb_pc = "extend"
    /\ sample_buffer' = sample_buffer \o FloatData(audio_stream, data)
    /\ cb_pc' = "trim"
    /\ UNCHANGED <<before_push, pushed, call, source, sb_lock, spectrum_data, sd_lock, audio_stream, data, ui_pc,
                   samples, spectrum, bands, drawn, arrived, drained, history_src,
                   tick>>

\* Trimmed with the excess computed one short
TrimmedOneOver(buffer) ==
    IF Len(buffer) > SAMPLE_CAPACITY + 1
    THEN DropFront(buffer, Len(buffer) - SAMPLE_CAPACITY - 1)
    ELSE buffer

\* Trimmed by truncate(4096): the newest samples go, not the oldest
TrimmedKeepsOldest(buffer) ==
    IF Len(buffer) > SAMPLE_CAPACITY
    THEN TakeFront(buffer, SAMPLE_CAPACITY)
    ELSE buffer

\* the buffer after `if buffer.len() > 4096 { buffer.drain(0..excess) }`
Trimmed(buffer) ==
    IF Len(buffer) > SAMPLE_CAPACITY
    THEN DropFront(buffer, Len(buffer) - SAMPLE_CAPACITY)
    ELSE buffer

CbTrim ==
    /\ cb_pc = "trim"
    /\ sample_buffer' = Trimmed(sample_buffer)
    /\ cb_pc' = "unlock"
    /\ UNCHANGED <<before_push, pushed, call, source, sb_lock, spectrum_data, sd_lock, audio_stream, data, ui_pc,
                   samples, spectrum, bands, drawn, arrived, drained, history_src,
                   tick>>

\* the guard `buffer` goes out of scope; the callback returns
CbUnlock ==
    /\ cb_pc = "unlock"
    /\ sb_lock' = "none"
    /\ cb_pc' = "idle"
    /\ before_push' = <<>>
    /\ UNCHANGED <<pushed, call, source, sample_buffer, spectrum_data, sd_lock, audio_stream, data,
                   ui_pc, samples, spectrum, bands, drawn, arrived, drained,
                   history_src, tick>>

\* ------------------------------------------------------- update()
\* main.rs:35 try_lock() finds the mutex free
UiTryLockOk ==
    /\ ui_pc = "try_lock"
    /\ sb_lock = "none"
    /\ sb_lock' = "ui"
    /\ ui_pc' = "check_len"
    /\ tick' = [locked |-> TRUE, buffer |-> sample_buffer, history |-> spectrum_data]
    /\ UNCHANGED <<before_push, pushed, call, source, sample_buffer, spectrum_data, sd_lock, audio_stream, cb_pc,
                   data, samples, spectrum, bands, drawn, arrived, drained,
                   history_src>>

\* UiTryLockBusy going on into the block without the lock
UiTryLockBusyProceeds ==
    /\ ui_pc = "try_lock"
    /\ sb_lock # "none"
    /\ ui_pc' = "check_len"
    /\ tick' = [locked |-> FALSE, buffer |-> sample_buffer, history |-> spectrum_data]
    /\ UNCHANGED <<before_push, pushed, call, source, sample_buffer, sb_lock,
                   spectrum_data, sd_lock, audio_stream, cb_pc, data, samples,
                   spectrum, bands, drawn, arrived, drained, history_src>>

\* main.rs:35 try_lock() finds the mutex held: the whole block is skipped
UiTryLockBusy ==
    /\ ui_pc = "try_lock"
    /\ sb_lock # "none"
    /\ ui_pc' = "draw_lock"
    /\ tick' = [locked |-> FALSE, buffer |-> sample_buffer, history |-> spectrum_data]
    /\ UNCHANGED <<before_push, pushed, call, source, sample_buffer, sb_lock, spectrum_data, sd_lock, audio_stream,
                   cb_pc, data, samples, spectrum, bands, drawn, arrived, drained,
                   history_src>>

\* UiCheckLen discarding a buffer too short for a frame
UiCheckLenClearsShort ==
    /\ ui_pc = "check_len"
    /\ ui_pc' = IF Len(sample_buffer) >= FFT_SIZE THEN "drain" ELSE "unlock"
    /\ sample_buffer' = IF Len(sample_buffer) >= FFT_SIZE THEN sample_buffer ELSE <<>>
    /\ UNCHANGED <<before_push, pushed, call, source, sb_lock, spectrum_data,
                   sd_lock, audio_stream, cb_pc, data, samples, spectrum, bands,
                   drawn, arrived, drained, history_src, tick>>

\* main.rs:36 if buffer.len() >= 1024
UiCheckLen ==
    /\ ui_pc = "check_len"
    /\ ui_pc' = IF Len(sample_buffer) >= FFT_SIZE THEN "drain" ELSE "unlock"
    /\ UNCHANGED <<before_push, pushed, call, source, sample_buffer, sb_lock, spectrum_data, sd_lock, audio_stream,
                   cb_pc, data, samples, spectrum, bands, drawn, arrived, drained,
                   history_src, tick>>

\* DrainFrame taking the newest samples
DrainFrameNewest(buffer) == LastN(buffer, FFT_SIZE)

\* what buffer.drain(0..1024).collect() returns
DrainFrame(buffer) == TakeFront(buffer, FFT_SIZE)

\* what buffer.drain(0..1024) leaves in the buffer
DrainRest(buffer) == DropFront(buffer, FFT_SIZE)

\* main.rs:38
UiDrain ==
    /\ ui_pc = "drain"
    /\ samples' = DrainFrame(sample_buffer)
    /\ sample_buffer' = DrainRest(sample_buffer)
    /\ drained' = Append(drained, [j \in 1..Len(samples') |-> samples'[j].seq])
    /\ ui_pc' = "fft"
    /\ UNCHANGED <<before_push, pushed, call, source, sb_lock, spectrum_data, sd_lock, audio_stream, cb_pc, data,
                   spectrum, bands, drawn, arrived, history_src, tick>>

\* main.rs:41-49 hann window, FFT, `if let Ok(spectrum) = spectrum_result`
UiFft ==
    /\ ui_pc = "fft"
    /\ \E r \in SpectrumResults(samples) :
          IF r.ok
          THEN ui_pc' = "bands" /\ spectrum' = r.data
          ELSE ui_pc' = "unlock" /\ UNCHANGED spectrum
    /\ UNCHANGED <<before_push, pushed, call, source, sample_buffer, sb_lock, spectrum_data, sd_lock, audio_stream,
                   cb_pc, data, samples, bands, drawn, arrived, drained,
                   history_src, tick>>

\* main.rs:51-56
UiBands ==
    /\ ui_pc = "bands"
    /\ bands' = convert_spectrum_to_bands(spectrum, NUM_BANDS)
    /\ ui_pc' = "hist_lock"
    /\ UNCHANGED <<before_push, pushed, call, source, sample_buffer, sb_lock, spectrum_data, sd_lock, audio_stream,
                   cb_pc, data, samples, spectrum, drawn, arrived, drained,
                   history_src, tick>>

\* main.rs:58 self.spectrum_data.lock(), with the sample_buffer guard alive
UiHistLock ==
    /\ ui_pc = "hist_lock"
    /\ sd_lock = "none"
    /\ sd_lock' = "ui"
    /\ ui_pc' = "push"
    /\ UNCHANGED <<before_push, pushed, call, source, sample_buffer, sb_lock, spectrum_data, audio_stream, cb_pc,
                   data, samples, spectrum, bands, drawn, arrived, drained,
                   history_src, tick>>

\* PushBack as push_front
PushFront(q, x) == <<x>> \o q

\* VecDeque::push_back
PushBack(q, x) == Append(q, x)

\* main.rs:59
UiPush ==
    /\ ui_pc = "push"
    /\ spectrum_data' = PushBack(spectrum_data, bands)
    /\ history_src' = PushBack(history_src, Len(drained))
    /\ ui_pc' = "evict"
    /\ pushed' = Append(pushed, bands)
    /\ UNCHANGED <<before_push, call, source, sample_buffer, sb_lock, sd_lock, audio_stream, cb_pc, data,
                   samples, spectrum, bands, drawn, arrived, drained, tick>>

\* Evicted without the pop_front
EvictedNever(q) == q

\* the queue after `if spectrum_data.len() > HISTORY_SIZE { pop_front() }`
Evicted(q) == IF Len(q) > HISTORY_SIZE THEN Tail(q) ELSE q

\* UiEvict with the spectrum_data guard kept alive to the end of update
UiEvictKeepsGuard ==
    /\ ui_pc = "evict"
    /\ spectrum_data' = Evicted(spectrum_data)
    /\ history_src' = Evicted(history_src)
    /\ ui_pc' = "unlock"
    /\ UNCHANGED <<before_push, pushed, call, source, sample_buffer, sb_lock,
                   sd_lock, audio_stream, cb_pc, data, samples, spectrum, bands,
                   drawn, arrived, drained, tick>>

\* main.rs:60-63, the spectrum_data guard dropped at the end of the block
UiEvict ==
    /\ ui_pc = "evict"
    /\ spectrum_data' = Evicted(spectrum_data)
    /\ history_src' = Evicted(history_src)
    /\ sd_lock' = "none"
    /\ ui_pc' = "unlock"
    /\ UNCHANGED <<before_push, pushed, call, source, sample_buffer, sb_lock, audio_stream, cb_pc, data, samples,
                   spectrum, bands, drawn, arrived, drained, tick>>

\* main.rs:66 the sample_buffer guard `buffer` is dropped
UiUnlock ==
    /\ ui_pc = "unlock"
    /\ sb_lock' = "none"
    /\ ui_pc' = "draw_lock"
    /\ UNCHANGED <<before_push, pushed, call, source, sample_buffer, spectrum_data, sd_lock, audio_stream, cb_pc,
                   data, samples, spectrum, bands, drawn, arrived, drained,
                   history_src, tick>>

\* main.rs:72 self.spectrum_data.lock()
UiDrawLock ==
    /\ ui_pc = "draw_lock"
    /\ sd_lock = "none"
    /\ sd_lock' = "ui"
    /\ ui_pc' = "draw"
    /\ UNCHANGED <<before_push, pushed, call, source, sample_buffer, sb_lock, spectrum_data, audio_stream, cb_pc,
                   data, samples, spectrum, bands, drawn, arrived, drained,
                   history_src, tick>>

\* Back as front()
Front(q) == q[1]

\* VecDeque::back of a non-empty queue
Back(q) == q[Len(q)]

\* main.rs:200-202: alpha = 0.5 * (1.0 - history_idx * (1.0 / HISTORY_SIZE)),
\* counted in units of 1 / (2 * HISTORY_SIZE)
Alpha(history_idx) == HISTORY_SIZE - history_idx

\* main.rs:203 `if alpha <= 0.05 { continue; }`, alpha in the unit of Alpha
Faint(alpha) == 20 * alpha <= 2 * HISTORY_SIZE

\* main.rs:201-229: the history layers in iteration order, front first, with
\* history_idx from enumerate()
Layers(q) ==
    [k \in 1..Len(q) |-> [alpha |-> Alpha(k - 1), painted |-> ~Faint(Alpha(k - 1))]]

\* Painted without the early return on an empty history
PaintedNoLabel(q) ==
    [mode |-> "bars",
     current |-> IF Len(q) = 0 THEN <<>> ELSE Back(q),
     layers |-> Layers(q)]

\* draw_spectrum, main.rs:159-230: the label, or bars for the newest frame
\* and the faded layers of the history
Painted(q) ==
    IF Len(q) = 0
    THEN [mode |-> "waiting", current |-> <<>>, layers |-> <<>>]
    ELSE [mode |-> "bars", current |-> Back(q), layers |-> Layers(q)]

\* main.rs:73-79: draw, drop the guard, return from update
UiDraw ==
    /\ ui_pc = "draw"
    /\ drawn' = Painted(spectrum_data)
    /\ sd_lock' = "none"
    /\ samples' = <<>>
    /\ spectrum' = <<>>
    /\ bands' = <<>>
    /\ tick' = NoTick
    /\ ui_pc' = "try_lock"
    /\ UNCHANGED <<before_push, pushed, call, source, sample_buffer, sb_lock, spectrum_data, audio_stream, cb_pc,
                   data, arrived, drained, history_src>>

\* ------------------------------------------------------------- Spec
Callback ==
    \/ \E n \in 1..MaxChunk : CbInvoke(n)
    \/ CbLock
    \/ CbExtend
    \/ CbTrim
    \/ CbUnlock

Update ==
    \/ UiTryLockOk
    \/ UiTryLockBusy
    \/ UiCheckLen
    \/ UiDrain
    \/ UiFft
    \/ UiBands
    \/ UiHistLock
    \/ UiPush
    \/ UiEvict
    \/ UiUnlock
    \/ UiDrawLock
    \/ UiDraw

Next == Callback \/ Update

Spec == Init /\ [][Next]_vars

\* ------------------------------ convert_spectrum_to_bands on its own
\* magnitudes given to the function: negative, zero, below 1.0, above 1.0
BinVals == {0 - 1, 0, 1, 2 * Unit + 1}

\* LongBins bins, all 0 but a pulse of 4.0 at bin p
PulseSeqs == {[j \in 1..LongBins |-> IF j = p THEN 4 * Unit ELSE 0] : p \in 1..LongBins}

BinSeqs == UNION {[1..l -> BinVals] : l \in 0..MaxBins} \cup PulseSeqs

BandCounts == (0..MaxBands) \cup {NUM_BANDS}

InitBands ==
    /\ Fresh
    /\ audio_stream = "None"
    /\ source = "zero"
    /\ \E s \in BinSeqs, n \in BandCounts :
          call = [spectrum |-> s, num_bands |-> n, result |-> <<>>, done |-> FALSE]

CallBands ==
    /\ ~call.done
    /\ call' = [call EXCEPT !.result = convert_spectrum_to_bands(call.spectrum,
                                                                 call.num_bands),
                            !.done = TRUE]
    /\ UNCHANGED <<sample_buffer, sb_lock, spectrum_data, sd_lock, audio_stream,
                   source, cb_pc, data, ui_pc, samples, spectrum, bands, drawn,
                   arrived, before_push, pushed, drained, history_src, tick>>

NextBands == CallBands

SpecBands == InitBands /\ [][NextBands]_vars

\* ------------------------------------- the pipeline running for ever
\* The callback as CbInvoke, for a stream that never ends: the samples carry
\* no arrival number and nothing is counted.
CbInvokeLive(n) ==
    /\ audio_stream # "None"
    /\ cb_pc = "idle"
    /\ data' = [j \in 1..n |-> [seq |-> 0, v |-> source]]
    /\ cb_pc' = "lock"
    /\ UNCHANGED <<before_push, pushed, call, source, sample_buffer, sb_lock,
                   spectrum_data, sd_lock, audio_stream, ui_pc, samples, spectrum,
                   bands, drawn, arrived, drained, history_src, tick>>

\* UiDrain without the record of the drained frames
UiDrainLive ==
    /\ ui_pc = "drain"
    /\ samples' = DrainFrame(sample_buffer)
    /\ sample_buffer' = DrainRest(sample_buffer)
    /\ ui_pc' = "fft"
    /\ UNCHANGED <<before_push, pushed, call, source, sb_lock, spectrum_data,
                   sd_lock, audio_stream, cb_pc, data, spectrum, bands, drawn,
                   arrived, drained, history_src, tick>>

\* the spectra UiFft can leave in `spectrum`
Spectra == {[b \in 1..Bins |-> m] : m \in MagVals \cup {0}}

\* convert_spectrum_to_bands(spectrum, NUM_BANDS), tabulated
BandTable == [s \in Spectra |-> convert_spectrum_to_bands(s, NUM_BANDS)]

\* UiBands reading the band frame from the table
UiBandsLive ==
    /\ ui_pc = "bands"
    /\ bands' = BandTable[spectrum]
    /\ ui_pc' = "hist_lock"
    /\ UNCHANGED <<before_push, pushed, call, source, sample_buffer, sb_lock,
                   spectrum_data, sd_lock, audio_stream, cb_pc, data, samples,
                   spectrum, drawn, arrived, drained, history_src, tick>>

\* UiPush without the record of the pushed frames
UiPushLive ==
    /\ ui_pc = "push"
    /\ spectrum_data' = PushBack(spectrum_data, bands)
    /\ ui_pc' = "evict"
    /\ UNCHANGED <<before_push, pushed, call, source, sample_buffer, sb_lock,
                   sd_lock, audio_stream, cb_pc, data, samples, spectrum, bands,
                   drawn, arrived, drained, history_src, tick>>

CallbackLive ==
    \/ \E n \in 1..MaxChunk : CbInvokeLive(n)
    \/ CbLock
    \/ CbExtend
    \/ CbTrim
    \/ CbUnlock

UpdateLive ==
    \/ UiTryLockOk
    \/ UiTryLockBusy
    \/ UiCheckLen
    \/ UiDrainLive
    \/ UiFft
    \/ UiBandsLive
    \/ UiHistLock
    \/ UiPushLive
    \/ UiEvict
    \/ UiUnlock
    \/ UiDrawLock
    \/ UiDraw

NextLive == CallbackLive \/ UpdateLive

\* init_audio found an F32 device, which delivers finite samples
InitLive == Init /\ audio_stream = "F32" /\ source # "nan"

\* The stream keeps calling the callback and the callback runs to its end;
\* update returns and, with request_repaint() (main.rs:78), is called again;
\* a thread blocked in lock() gets the mutex if it is released again and
\* again.  try_lock() does not queue, so nothing is assumed of its success.
SpecLive ==
    /\ InitLive
    /\ [][NextLive]_vars
    /\ WF_vars(CallbackLive)
    /\ WF_vars(UpdateLive)
    /\ SF_vars(CbLock)

\* --------------------- the pipeline and the function in one specification
InitAll == Init \/ InitBands

NextAll == Next \/ (call # NoCall /\ CallBands)

SpecAll == InitAll /\ [][NextAll]_vars

\* ============================================================ claims
\* the arrival numbers of a sequence of samples
SeqNos(s) == [j \in 1..Len(s) |-> s[j].seq]

\* update holds the sample_buffer lock at a step after the drain
Analysing == ui_pc \in {"fft", "bands", "hist_lock", "push", "evict"}

\* C1: the audio callback never waits on the sample_buffer lock while update
\* holds it.  The callback calls the blocking lock(), so this fails.
C1_CallbackNeverWaits == ~(cb_pc = "lock" /\ sb_lock = "ui")

\* C2: the sample_buffer lock is never held while the FFT, the band mapping or
\* the history push is in progress.  update keeps the guard until the end of
\* the `if let` block, so this fails.
C2_LockNotHeldInAnalysis == ~(sb_lock = "ui" /\ Analysing)

\* C3: whenever the sample_buffer lock is free, the buffer holds at most
\* SAMPLE_CAPACITY samples, for chunks of any length and any interleaving.
C3_BufferBound == sb_lock = "none" => Len(sample_buffer) <= SAMPLE_CAPACITY

\* a chunk longer than the capacity has been pushed and the lock released
C3_Witness ==
    /\ sb_lock = "none"
    /\ cb_pc = "idle"
    /\ Len(data) > SAMPLE_CAPACITY
    /\ Len(sample_buffer) = SAMPLE_CAPACITY

\* C4: a push of chunk d onto content b leaves the last min(capacity,|b|+|d|)
\* elements of b followed by d; as long as nothing was drained the buffer is
\* the last min(capacity, arrived) samples pushed.
C4_PushKeepsNewest ==
    /\ cb_pc = "unlock" =>
          sample_buffer =
             LastN(before_push \o FloatData(audio_stream, data),
                   Min(SAMPLE_CAPACITY, Len(before_push) + Len(data)))
    /\ (cb_pc = "idle" /\ drained = <<>>) =>
          SeqNos(sample_buffer) =
             [j \in 1..Min(SAMPLE_CAPACITY, arrived) |->
                  arrived - Min(SAMPLE_CAPACITY, arrived) + j]

\* a push that evicts part of the old content and keeps the rest
C4_Witness ==
    /\ cb_pc = "unlock"
    /\ Len(before_push) > 0
    /\ Len(data) < SAMPLE_CAPACITY
    /\ Len(before_push) + Len(data) > SAMPLE_CAPACITY

\* C5: a tick that takes the lock and finds fewer than FFT_SIZE samples
\* extracts no frame and leaves buffer and history as they were.
C5_ShortBufferNoOp ==
    (tick.locked /\ Len(tick.buffer) < FFT_SIZE) =>
        /\ samples = <<>>
        /\ spectrum_data = tick.history
        /\ sb_lock = "ui" => sample_buffer = tick.buffer

\* such a tick has finished its block with a non-empty, too short buffer
C5_Witness ==
    /\ ui_pc = "unlock"
    /\ tick.locked
    /\ Len(tick.buffer) > 0
    /\ Len(tick.buffer) < FFT_SIZE

\* C6: a tick that takes the lock and finds at least FFT_SIZE samples removes
\* exactly the first FFT_SIZE as the frame and leaves the rest in order; a
\* tick removes 0 or FFT_SIZE samples.
C6_DrainTakesOldest ==
    /\ (sb_lock = "ui" /\ (Analysing \/ ui_pc = "unlock")
          /\ Len(tick.buffer) >= FFT_SIZE) =>
            /\ samples = SubSeq(tick.buffer, 1, FFT_SIZE)
            /\ sample_buffer = SubSeq(tick.buffer, FFT_SIZE + 1, Len(tick.buffer))
    /\ sb_lock = "ui" =>
            Len(tick.buffer) - Len(sample_buffer) \in {0, FFT_SIZE}

\* a frame was drained from a buffer holding more than a frame
C6_Witness ==
    /\ ui_pc = "fft"
    /\ Len(tick.buffer) > FFT_SIZE
    /\ Len(samples) = FFT_SIZE

\* C7: every drained frame is a run in arrival order, every sample of a later
\* frame arrived after every sample of an earlier frame, and the history lists
\* its band frames in the order their frames were drained.
C7_FifoEndToEnd ==
    /\ \A k \in 1..Len(drained) :
          /\ Len(drained[k]) = FFT_SIZE
          /\ \A a, b \in 1..FFT_SIZE : a < b => drained[k][a] < drained[k][b]
    /\ \A k, l \in 1..Len(drained) :
          k < l => \A a, b \in 1..FFT_SIZE : drained[k][a] < drained[l][b]
    /\ Len(history_src) = Len(spectrum_data)
    /\ \A k, l \in 1..Len(history_src) : k < l => history_src[k] < history_src[l]
    /\ \A k \in 1..Len(history_src) : history_src[k] \in 1..Len(drained)

\* two frames drained with samples lost to a trim between them, both in history
C7_Witness ==
    /\ Len(history_src) >= 2
    /\ drained[history_src[2]][1] > drained[history_src[1]][FFT_SIZE] + 1

\* C8: outside the push itself (so after every tick) the history holds at most
\* HISTORY_SIZE band frames.
C8_HistoryBound == ui_pc # "evict" => Len(spectrum_data) <= HISTORY_SIZE

\* more than HISTORY_SIZE frames were pushed and the tick is over
C8_Witness ==
    /\ ui_pc = "try_lock"
    /\ Len(pushed) > HISTORY_SIZE
    /\ Len(spectrum_data) = HISTORY_SIZE

\* C9: after K pushes the history is the last min(K, HISTORY_SIZE) pushed
\* frames, oldest first, and the frame drawn as current is the last pushed.
C9_HistoryKeepsNewest ==
    /\ ui_pc # "evict" =>
          spectrum_data = LastN(pushed, Min(Len(pushed), HISTORY_SIZE))
    /\ (ui_pc = "try_lock" /\ pushed # <<>>) =>
          drawn.mode = "bars" /\ drawn.current = pushed[Len(pushed)]

\* an eviction has happened, the newest frame differs from the oldest kept one
\* and from the evicted one, and it has been drawn
C9_Witness ==
    /\ ui_pc = "try_lock"
    /\ Len(pushed) = HISTORY_SIZE + 1
    /\ pushed[Len(pushed)] # spectrum_data[1]
    /\ pushed[1] # spectrum_data[1]
    /\ drawn.mode = "bars"

\* C10: convert_spectrum_to_bands returns exactly num_bands values for every
\* bin count, all of them 0 when there are no bins.
C10_BandCount ==
    call.done =>
        /\ DOMAIN call.result = 1..call.num_bands
        /\ Len(call.spectrum) = 0 =>
              \A i \in 1..call.num_bands : call.result[i] = 0

\* fewer bins than bands, and a band that is not 0
C10_Witness ==
    /\ call.done
    /\ Len(call.spectrum) > 0
    /\ Len(call.spectrum) < call.num_bands
    /\ \E i \in 1..call.num_bands : call.result[i] > 0

\* the index of the claim: floor((i / num_bands)^2 * L) in exact arithmetic
ExactIdx(i, num_bands, L) == (i * i * L) \div (num_bands * num_bands)

\* C11: band i is 0 when start >= end and else the clamped mean of the bins
\* [start, end), where start = floor((i/num_bands)^2 * L) and
\* end = min(floor(((i+1)/num_bands)^2 * L), L).  The code computes the
\* indices in f32, which falls below an exact integer value for some inputs
\* (num_bands = 40, L = 100, i = 28: 48, not 49), so this fails.
C11_ExactFloorRanges ==
    call.done =>
        \A i \in 0..(call.num_bands - 1) :
            LET L == Len(call.spectrum)
                start == ExactIdx(i, call.num_bands, L)
                end == Min(ExactIdx(i + 1, call.num_bands, L), L)
            IN  call.result[i + 1] =
                    IF start >= end THEN 0
                    ELSE Clamp01(SumMags(call.spectrum, start, end) \div (end - start))

\* C12: every band value convert_spectrum_to_bands returns, and so every
\* value of every history frame, lies in [0.0, 1.0], for magnitudes above 1.0
\* and negative ones too.
C12_BandsInUnitRange ==
    /\ call.done =>
          \A i \in DOMAIN call.result :
              call.result[i] >= 0 /\ call.result[i] <= Unit
    /\ \A k \in DOMAIN spectrum_data : \A i \in DOMAIN spectrum_data[k] :
          spectrum_data[k][i] >= 0 /\ spectrum_data[k][i] <= Unit

\* a call on negative magnitudes and magnitudes above 1.0 whose result has a
\* band at 0.0 and a band at 1.0
C12_Witness ==
    /\ call.done
    /\ \E j \in DOMAIN call.spectrum : call.spectrum[j] < 0
    /\ \E j \in DOMAIN call.spectrum : call.spectrum[j] > Unit
    /\ \E i \in DOMAIN call.result : call.result[i] = Unit
    /\ \E i \in DOMAIN call.result : call.result[i] = 0

\* no callback has appended a sample yet: init_audio failed, or no chunk has
\* arrived, or the first chunk is still in the hands of the callback
NothingPushed ==
    \/ audio_stream = "None"
    \/ arrived = 0
    \/ arrived = Len(data) /\ cb_pc \in {"lock", "extend"}

\* C13: as long as no samples have been pushed (a fresh app, and for ever
\* after a failed init_audio) the sample buffer and the history stay empty
\* over any number of ticks, nothing is drained or pushed, and every draw
\* paints the "Waiting for audio data..." label.
C13_IdleStaysEmpty ==
    NothingPushed =>
        /\ sample_buffer = <<>>
        /\ spectrum_data = <<>>
        /\ drained = <<>>
        /\ pushed = <<>>
        /\ drawn.mode \in {"none", "waiting"}
        /\ drawn.current = <<>>
        /\ ui_pc \in {"try_lock", "check_len", "unlock", "draw_lock", "draw"}

\* init_audio failed, a tick has drawn the label and the next tick has looked
\* at the buffer
C13_Witness ==
    /\ audio_stream = "None"
    /\ drawn.mode = "waiting"
    /\ ui_pc = "unlock"

\* the band frame of all zeros
ZeroFrame == [i \in 1..NUM_BANDS |-> 0]

\* the frame update drained in this tick is all zeros
ZeroSamples == samples # <<>> /\ \A j \in DOMAIN samples : samples[j].v = "zero"

\* C14: a frame of all-zero samples gives a spectrum of all-zero magnitudes,
\* whose NUM_BANDS band values are all 0; the frame is pushed to the history
\* (the analysis does not fail) and the tick goes on to draw it.
C14_ZeroFrameZeroBands ==
    /\ (ui_pc \in {"hist_lock", "push", "evict", "unlock", "draw_lock", "draw"}
          /\ spectrum # <<>> /\ \A j \in DOMAIN spectrum : spectrum[j] = 0) =>
            bands = ZeroFrame
    /\ ZeroSamples =>
          /\ ui_pc \in {"bands", "hist_lock", "push"} =>
                spectrum # <<>> /\ \A j \in DOMAIN spectrum : spectrum[j] = 0
          /\ ui_pc \in {"evict", "unlock", "draw_lock", "draw"} =>
                /\ spectrum_data # <<>>
                /\ Back(spectrum_data) = ZeroFrame
                /\ Back(history_src) = Len(drained)

\* a second frame of zeros has gone through the analysis and has been pushed
C14_Witness ==
    /\ ZeroSamples
    /\ ui_pc = "unlock"
    /\ Len(spectrum_data) >= 2
    /\ Back(spectrum_data) = ZeroFrame

\* C16: the fade weight of a history layer is max(0, 0.5 * (1 - age / 50))
\* with age the distance from the newest frame, so that a newer frame never
\* has a smaller weight than an older one.  The code takes history_idx from
\* the front of the queue, so the oldest frame has the largest weight.
C16_FadeByAge ==
    \A k \in DOMAIN drawn.layers :
        /\ drawn.layers[k].alpha =
              LET age == Len(drawn.layers) - k
              IN  IF HISTORY_SIZE - age < 0 THEN 0 ELSE HISTORY_SIZE - age
        /\ \A l \in DOMAIN drawn.layers :
              k < l => drawn.layers[k].alpha <= drawn.layers[l].alpha

\* the callback is between its lock() and the drop of its guard
CbCritical == cb_pc \in {"extend", "trim", "unlock"}

\* update is inside the `if let Ok(mut buffer) = try_lock()` block
UiCritical ==
    ui_pc \in {"check_len", "drain", "fft", "bands", "hist_lock", "push",
               "evict", "unlock"}

\* C17: the callback's append-and-trim and update's drain exclude each other:
\* at most one of them is in its critical section; the buffer update drains
\* is the buffer it locked, the frame is its first FFT_SIZE samples, which
\* arrived one after the other, and the callback trims the buffer it locked
\* plus its own chunk.
C17_MutualExclusion ==
    /\ ~(CbCritical /\ UiCritical)
    /\ CbCritical => sb_lock = "cb"
    /\ UiCritical => sb_lock = "ui"
    /\ ui_pc \in {"check_len", "drain"} => sample_buffer = tick.buffer
    /\ (UiCritical /\ samples # <<>>) =>
          /\ samples = TakeFront(tick.buffer, FFT_SIZE)
          /\ \A j \in 1..(Len(samples) - 1) : samples[j + 1].seq = samples[j].seq + 1
    /\ cb_pc = "trim" =>
          sample_buffer = before_push \o FloatData(audio_stream, data)

\* update is about to drain while the callback waits with a chunk whose trim
\* would cut into the frame
C17_Witness ==
    /\ ui_pc = "drain"
    /\ cb_pc = "lock"
    /\ Len(sample_buffer) + Len(data) - SAMPLE_CAPACITY > 0
    /\ Len(sample_buffer) < SAMPLE_CAPACITY + FFT_SIZE

\* C19: update never waits for the sample_buffer lock: at try_lock it can
\* always take a step; and a tick whose try_lock failed drains nothing,
\* analyses nothing, pushes nothing and never holds the lock, whatever the
\* buffer holds.
C19_BusyTickSkips ==
    /\ ui_pc = "try_lock" => ENABLED (UiTryLockOk \/ UiTryLockBusy)
    /\ (ui_pc \in {"draw_lock", "draw"} /\ ~tick.locked) =>
          /\ samples = <<>>
          /\ spectrum = <<>>
          /\ bands = <<>>
          /\ spectrum_data = tick.history
          /\ sb_lock # "ui"

\* a tick found the lock held while the buffer held a whole frame
C19_Witness ==
    /\ ui_pc = "draw"
    /\ ~tick.locked
    /\ Len(tick.buffer) >= FFT_SIZE
    /\ Len(tick.history) > 0

\* main.rs:243 start_idx of band i (0-based)
StartIdx(i, num_bands, spectrum_len) == BandIdx(i, num_bands, spectrum_len)

\* main.rs:244-245 end_idx of band i, after .min(spectrum_len)
EndIdx(i, num_bands, spectrum_len) ==
    Min(BandIdx(i + 1, num_bands, spectrum_len), spectrum_len)

C15_EventuallyPushed == []<>(ui_pc = "evict")

====
